---- MODULE Spec2Model ----
(***************************************************************************)
(* Model of the Piper TTS HTTP service (main.py, config.py).               *)
(*                                                                         *)
(* Python strings are modelled as sequences of one-character strings so    *)
(* that strip(), split("-") and lower() are computed, not assumed.         *)
(***************************************************************************)
EXTENDS Integers, Sequences, FiniteSets, TLC

\* Number of POST /v1/audio/speech requests accepted in one process lifetime.
MaxReq == 2

----------------------------------------------------------------------------
(* String helpers: str.strip(), str.split("-"), str.lower()                *)

Whitespace == {" ", "\t", "\n"}

RECURSIVE LStrip(_)
LStrip(s) ==
    IF s = <<>> THEN <<>>
    ELSE IF Head(s) \in Whitespace THEN LStrip(Tail(s)) ELSE s

RECURSIVE RStrip(_)
RStrip(s) ==
    IF s = <<>> THEN <<>>
    ELSE IF s[Len(s)] \in Whitespace THEN RStrip(SubSeq(s, 1, Len(s) - 1)) ELSE s

\* str.strip()
Strip(s) == RStrip(LStrip(s))

RECURSIVE SplitFrom(_, _, _)
SplitFrom(s, sep, cur) ==
    IF s = <<>> THEN <<cur>>
    ELSE IF Head(s) = sep THEN <<cur>> \o SplitFrom(Tail(s), sep, <<>>)
    ELSE SplitFrom(Tail(s), sep, Append(cur, Head(s)))

\* str.split(sep) for a one-character separator
Split(s, sep) == SplitFrom(s, sep, <<>>)

LowerChar(c) ==
    CASE c = "W" -> "w"
      [] c = "A" -> "a"
      [] c = "V" -> "v"
      [] c = "M" -> "m"
      [] c = "P" -> "p"
      [] c = "O" -> "o"
      [] c = "G" -> "g"
      [] OTHER -> c

\* str.lower()
Lower(s) == [i \in 1..Len(s) |-> LowerChar(s[i])]

----------------------------------------------------------------------------
(* Inputs                                                                  *)

VoiceASp  == <<" ", "d", "-", "t", "-", "h", "\n">>
VoiceB    == <<"e", "-", "l", "-", "m", "-", "x">>
VoiceBad  == <<"d", "-", "t">>

Voices == {VoiceASp, VoiceB, VoiceBad}

Texts == { <<>>, <<" ", "\n">>, <<" ", "h", "i">> }

FmtWav   == <<"w", "a", "v">>
FmtWAV   == <<"W", "A", "V">>
FmtMp3   == <<"m", "p", "3">>
FmtOgg   == <<"o", "g", "g">>

Formats == {FmtWav, FmtWAV, FmtMp3, FmtOgg}

Keys == {Strip(v) : v \in Voices}

----------------------------------------------------------------------------
(* config.py                                                               *)

\* Fields declared by class PiperSettings
SettingsFields ==
    {"mqtt_host", "mqtt_port", "s3_endpoint", "s3_access_key",
     "s3_secret_key", "s3_bucket", "models_dir", "default_voice", "log_level"}

\* Attributes of settings read by main()
MainReads == {"host", "port", "log_level"}

\* getattr on the settings object succeeds only for a declared field
HasAttr(f) == f \in SettingsFields

----------------------------------------------------------------------------
(* Model files under settings.models_dir                                   *)

Exts == {"onnx", "json"}
ModelPaths == Keys \X Exts
FileStates == {"absent", "ok"}

\* Outcomes of urllib.request.urlretrieve: the file is written, or the call
\* raises (URLError, HTTPError) before the local file is opened
DlOutcomes == {"ok", "error"}

NoFiles == [p \in ModelPaths |-> "absent"]

\* os.path.exists(path)
Exists(md, path) == md[path] # "absent"

\* if not os.path.exists(path): urlretrieve(url, path)
Fetch(md, path, outcome, tag) ==
    IF Exists(md, path)
    THEN [raised |-> FALSE, md |-> md, log |-> <<>>]
    ELSE IF outcome = "ok"
         THEN [raised |-> FALSE, md |-> [md EXCEPT ![path] = "ok"],
               log |-> <<tag>>]
         ELSE [raised |-> TRUE, md |-> md, log |-> <<tag, "download_error">>]

\* Mutant: the segment count is compared with 2
NameIsValidOffByOne(parts) == Len(parts) >= 2

\* len(parts) < 3 raises ValueError
NameIsValid(parts) == Len(parts) >= 3

download_piper_model(model_name, md, env) ==
    LET parts == Split(model_name, "-") IN
    IF ~NameIsValid(parts)
    THEN [raised |-> TRUE, md |-> md, log |-> <<"ValueError">>]
    ELSE LET o == Fetch(md, <<model_name, "onnx">>, env.onnx, "urlretrieve_onnx") IN
         IF o.raised THEN o
         ELSE LET j == Fetch(o.md, <<model_name, "json">>, env.json, "urlretrieve_json") IN
              [raised |-> j.raised, md |-> j.md, log |-> o.log \o j.log]

\* PiperVoice.load(onnx_path): needs the model and its config, and can
\* still fail inside the inference library.
LoadSucceeds(md, model_name, env) ==
    /\ md[<<model_name, "onnx">>] = "ok"
    /\ md[<<model_name, "json">>] = "ok"
    /\ env.load = "ok"

EmptyMap == [k \in {} |-> 0]

\* Mutant: the dict is never consulted
IsCachedNever(name, lv) == FALSE

\* piper_model_name not in loaded_voices  (negated)
IsCached(name, lv) == name \in DOMAIN lv

\* Mutant: the dict is rebound to hold the new handle alone
StoreVoiceAlone(lv, name, h) == [k \in {name} |-> h]

\* loaded_voices[piper_model_name] = handle
StoreVoice(lv, name, h) ==
    [k \in DOMAIN lv \cup {name} |-> IF k = name THEN h ELSE lv[k]]

\* Mutant: the failure is remembered under the identifier
OnLoadFailureCached(lv, name) == StoreVoice(lv, name, 0)

\* The except clause of get_voice: it logs and raises HTTPException; the
\* dict is not touched
OnLoadFailure(lv, name) == lv

\* Result of get_voice(voice_name) in the state (lv, md, nh); nh is the
\* identity the next PiperVoice object gets.
get_voice(voice_name, lv, md, nh, env) ==
    LET name == Strip(voice_name) IN
    IF IsCached(name, lv)
    THEN [ok |-> TRUE, lv |-> lv, md |-> md, nh |-> nh, handle |-> lv[name],
          log |-> <<"cache_hit">>]
    ELSE LET d == download_piper_model(name, md, env) IN
         IF d.raised
         THEN [ok |-> FALSE, lv |-> OnLoadFailure(lv, name), md |-> d.md,
               nh |-> nh, handle |-> 0,
               log |-> <<"cache_miss">> \o d.log \o <<"HTTPException">>]
         ELSE IF LoadSucceeds(d.md, name, env)
              THEN LET stored == StoreVoice(lv, name, nh) IN
                   [ok |-> TRUE, lv |-> stored, md |-> d.md,
                    nh |-> nh + 1, handle |-> stored[name],
                    log |-> <<"cache_miss">> \o d.log \o <<"load", "store">>]
              ELSE [ok |-> FALSE, lv |-> OnLoadFailure(lv, name), md |-> d.md,
                    nh |-> nh, handle |-> 0,
                    log |-> <<"cache_miss">> \o d.log
                            \o <<"load", "load_error", "HTTPException">>]

\* Does event e occur in log?
Has(log, e) == \E i \in 1..Len(log) : log[i] = e

\* Did the call start a download or a model load?
StartsFetch(log) ==
    Has(log, "urlretrieve_onnx") \/ Has(log, "urlretrieve_json") \/ Has(log, "load")

----------------------------------------------------------------------------
(* create_speech                                                           *)

\* Mutant: the input is tested without strip()
InputIsEmptyUnstripped(input) == input = <<>>

\* not request.input.strip()
InputIsEmpty(input) == Strip(input) = <<>>

\* Mutant: the format is compared without lower()
IsWavFormatExact(fmt) == fmt = FmtWav

\* request.response_format.lower() == "wav"
IsWavFormat(fmt) == Lower(fmt) = FmtWav

AudioPrefix == <<"a", "u", "d", "i", "o", "/">>
AudioWav    == AudioPrefix \o FmtWav
AudioMpeg   == AudioPrefix \o <<"m", "p", "e", "g">>

\* f"audio/{fmt}" if fmt != "mp3" else "audio/mpeg"
ContentType(fmt) == IF fmt # FmtMp3 THEN AudioPrefix \o fmt ELSE AudioMpeg

\* status_code of the HTTPExceptions raised; FileResponse answers 200
EmptyInputStatus == 400
ConversionErrorStatus == 500
GenericErrorStatus == 500
OkStatus == 200

\* Mutant: the HTTPException of get_voice is reported by the generic handler
VoiceErrorAsGeneric == GenericErrorStatus

VoiceErrorStatus == 400

\* tempfile.mkstemp(): the file exists on disk from here on
Mkstemp(tp, r, kind) == tp \cup {<<r, kind>>}

\* if os.path.exists(temp_wav): os.remove(temp_wav)   (both except clauses)
RemoveWavOnError(tp, r) == tp \ {<<r, "wav">>}

\* BackgroundTask(os.remove, temp_wav)
RemoveWav(tp, r) == tp \ {<<r, "wav">>}

\* cleanup_files()
cleanup_files(tp, r) == tp \ {<<r, "wav">>, <<r, "out">>}

SynthOutcomes == {"ok", "error"}
\* subprocess.run(check=True): exit 0, non-zero exit (CalledProcessError),
\* or the process cannot be started (OSError)
FfmpegOutcomes == {"ok", "nonzero", "oserror"}

EnvFields == {"onnx", "json", "load", "synth", "ffmpeg"}

\* Nothing fails
QuietEnv == [f \in EnvFields |-> "ok"]

\* What the environment does to one call.  The handler stops at the first
\* operation that fails, so the environments with at most one failing
\* operation produce every outcome of a call.
Envs ==
    { QuietEnv,
      [QuietEnv EXCEPT !.onnx = "error"],
      [QuietEnv EXCEPT !.json = "error"],
      [QuietEnv EXCEPT !.load = "error"],
      [QuietEnv EXCEPT !.synth = "error"],
      [QuietEnv EXCEPT !.ffmpeg = "nonzero"],
      [QuietEnv EXCEPT !.ffmpeg = "oserror"] }

NoResponse == [status |-> 0, detail |-> "", ctype |-> <<>>, body |-> "none",
               background |-> "none", log |-> <<>>]

ErrorResponse(status, detail, log) ==
    [status |-> status, detail |-> detail, ctype |-> <<>>, body |-> "none",
     background |-> "none", log |-> log]

FileResponse(body, ctype, background, log) ==
    [status |-> OkStatus, detail |-> "", ctype |-> ctype, body |-> body,
     background |-> background, log |-> log]

\* The part of create_speech after get_voice returned
Synthesize(r, fmt, tp, env, log0) ==
    LET tp1  == Mkstemp(tp, r, "wav")
        log1 == log0 \o <<"mkstemp_wav", "synthesize_wav">>
    IN
    IF env.synth # "ok"
    THEN [tmp |-> RemoveWavOnError(tp1, r),
          resp |-> ErrorResponse(GenericErrorStatus, "str(e)",
                                 log1 \o <<"Exception">>)]
    ELSE IF IsWavFormat(fmt)
    THEN [tmp |-> tp1,
          resp |-> FileResponse("wav", AudioWav, "remove_wav", log1)]
    ELSE LET tp2  == Mkstemp(tp1, r, "out")
             log2 == log1 \o <<"mkstemp_out", "ffmpeg">>
         IN
         CASE env.ffmpeg = "nonzero" ->
                [tmp |-> RemoveWavOnError(tp2, r),
                 resp |-> ErrorResponse(ConversionErrorStatus,
                                        "Audio format conversion failed.",
                                        log2 \o <<"CalledProcessError">>)]
           [] env.ffmpeg = "oserror" ->
                [tmp |-> RemoveWavOnError(tp2, r),
                 resp |-> ErrorResponse(GenericErrorStatus, "str(e)",
                                        log2 \o <<"Exception">>)]
           [] OTHER ->
                [tmp |-> tp2,
                 resp |-> FileResponse("out", ContentType(fmt), "cleanup_files",
                                       log2)]

\* Result of create_speech(request) for request slot r; handle is what
\* get_voice returned to it (0: it was not called, or it raised)
create_speech(r, input, voice, fmt, lv, md, nh, tp, env) ==
    IF InputIsEmpty(input)
    THEN [lv |-> lv, md |-> md, nh |-> nh, tmp |-> tp, handle |-> 0,
          resp |-> ErrorResponse(EmptyInputStatus, "Input text cannot be empty",
                                 <<"empty_input", "HTTPException">>)]
    ELSE LET g == get_voice(voice, lv, md, nh, env) IN
         IF ~g.ok
         THEN [lv |-> g.lv, md |-> g.md, nh |-> g.nh, tmp |-> tp, handle |-> 0,
               resp |-> ErrorResponse(VoiceErrorStatus, "Failed to load voice",
                                      g.log)]
         ELSE LET s == Synthesize(r, fmt, tp, env, g.log) IN
              [lv |-> g.lv, md |-> g.md, nh |-> g.nh, tmp |-> s.tmp,
               handle |-> g.handle, resp |-> s.resp]

\* The background task of a response, run after the body is sent
RunBackground(tp, r, background) ==
    CASE background = "remove_wav" -> RemoveWav(tp, r)
      [] background = "cleanup_files" -> cleanup_files(tp, r)
      [] OTHER -> tp

---------------------------------------------------------------------------------------------------------------------------------------------------
(* State                                                                   *)

VARIABLES
    phase,          \* process lifecycle
    default_voice,  \* settings.default_voice
    loaded_voices,  \* the module-level dict: identifier -> PiperVoice handle
    models,         \* files under settings.models_dir
    tmp,            \* temporary files on disk, <<request, kind>>
    reqs,           \* request slots: what the event loop holds per request
    last,           \* the latest run of create_speech, while its request lives
    nextHandle,     \* identity of the next PiperVoice object
    attempted,      \* identifiers for which a download or a load was started
    stores,         \* per identifier: assignments into loaded_voices
    firstHandle,    \* per identifier: the first handle stored (0: none yet)
    startupLog      \* events of the preload call made by lifespan

vars == <<phase, default_voice, loaded_voices, models, tmp, reqs, last,
          nextHandle, attempted, stores, firstHandle, startupLog>>

Reqs == 1..MaxReq

NewRequest == [st |-> "new", voice |-> <<>>, raced |-> FALSE,
               background |-> "none"]

EndedRequest == [NewRequest EXCEPT !.st = "ended"]

NoCall == [r |-> 0, input |-> <<>>, voice |-> <<>>, fmt |-> <<>>,
           raced |-> FALSE, handle |-> 0, resp |-> NoResponse]

\* Values of settings.default_voice: the environment or the command line
\* can set any string
DefaultVoices == {VoiceASp, VoiceBad}

Init ==
    /\ phase = "imported"
    /\ default_voice \in DefaultVoices
    /\ loaded_voices = EmptyMap
    /\ models = NoFiles
    /\ tmp = {}
    /\ reqs = [r \in Reqs |-> NewRequest]
    /\ last = NoCall
    /\ nextHandle = 1
    /\ attempted = {}
    /\ stores = [k \in Keys |-> 0]
    /\ firstHandle = [k \in Keys |-> 0]
    /\ startupLog = <<>>

\* Bookkeeping of one get_voice call on identifier k with event log lg
Account(k, lg, handle) ==
    /\ attempted' = IF StartsFetch(lg)
                    THEN attempted \cup {k} ELSE attempted
    /\ stores' = IF Has(lg, "store")
                 THEN [stores EXCEPT ![k] = @ + 1] ELSE stores
    /\ firstHandle' = IF Has(lg, "store") /\ firstHandle[k] = 0
                      THEN [firstHandle EXCEPT ![k] = handle] ELSE firstHandle

\* main(): reads settings.host, settings.port and settings.log_level, then
\* hands the app to uvicorn.run
Main ==
    /\ phase = "imported"
    /\ phase' = IF \A f \in MainReads : HasAttr(f)
                THEN "starting" ELSE "config_error"
    /\ UNCHANGED <<default_voice, loaded_voices, models, tmp, reqs, last,
                   nextHandle, attempted, stores, firstHandle, startupLog>>

\* app = FastAPI(lifespan=lifespan) served by an ASGI server that imports
\* main:app itself
ServeApp ==
    /\ phase = "imported"
    /\ phase' = "starting"
    /\ UNCHANGED <<default_voice, loaded_voices, models, tmp, reqs, last,
                   nextHandle, attempted, stores, firstHandle, startupLog>>

\* lifespan, up to the yield
LifespanStartup ==
    /\ phase = "starting"
    /\ \E env \in Envs :
       \E g \in {get_voice(default_voice, loaded_voices, models, nextHandle, env)} :
         /\ phase' = IF g.ok THEN "serving" ELSE "startup_failed"
         /\ loaded_voices' = g.lv
         /\ models' = g.md
         /\ nextHandle' = g.nh
         /\ startupLog' = g.log
         /\ Account(Strip(default_voice), g.log, g.handle)
    /\ UNCHANGED <<default_voice, tmp, reqs, last>>

Pending(q, k) == reqs[q].st = "pending" /\ Strip(reqs[q].voice) = k

\* A POST /v1/audio/speech request for a voice is accepted; its handler has
\* not run yet.
Arrive(r) ==
    /\ phase = "serving"
    /\ reqs[r].st = "new"
    /\ \A q \in Reqs : q < r => reqs[q].st # "new"
    /\ \E voice \in Voices :
         LET k == Strip(voice)
             race == ~IsCached(k, loaded_voices)
                     /\ \E q \in Reqs \ {r} : Pending(q, k)
         IN
         reqs' = [q \in Reqs |->
                    IF q = r
                    THEN [NewRequest EXCEPT !.st = "pending", !.voice = voice,
                                            !.raced = race]
                    ELSE IF race /\ Pending(q, k)
                         THEN [reqs[q] EXCEPT !.raced = TRUE]
                         ELSE reqs[q]]
    /\ UNCHANGED <<phase, default_voice, loaded_voices, models, tmp, last,
                   nextHandle, attempted, stores, firstHandle, startupLog>>

\* The handler create_speech: an async function without any await, so it
\* runs from its first line to its return or raise as one step of the
\* event loop.  The remaining fields of the request body are read here.
CreateSpeech(r) ==
    /\ phase = "serving"
    /\ reqs[r].st = "pending"
    /\ \E input \in Texts, fmt \in Formats :
       \E env \in IF InputIsEmpty(input) THEN {QuietEnv} ELSE Envs :
       \E c \in {create_speech(r, input, reqs[r].voice, fmt,
                                loaded_voices, models, nextHandle, tmp, env)} :
         /\ loaded_voices' = c.lv
         /\ models' = c.md
         /\ nextHandle' = c.nh
         /\ tmp' = c.tmp
         /\ reqs' = [reqs EXCEPT ![r].st = "responding",
                                 ![r].background = c.resp.background]
         /\ last' = [r |-> r, input |-> input, voice |-> reqs[r].voice,
                     fmt |-> fmt, raced |-> reqs[r].raced,
                     handle |-> c.handle, resp |-> c.resp]
         /\ Account(Strip(reqs[r].voice), c.resp.log, c.handle)
    /\ UNCHANGED <<phase, default_voice, startupLog>>

\* The response is sent, then its background task runs; the request is over.
Respond(r) ==
    /\ reqs[r].st = "responding"
    /\ tmp' = RunBackground(tmp, r, reqs[r].background)
    /\ reqs' = [reqs EXCEPT ![r] = EndedRequest]
    /\ last' = IF last.r = r THEN NoCall ELSE last
    /\ UNCHANGED <<phase, default_voice, loaded_voices, models,
                   nextHandle, attempted, stores, firstHandle, startupLog>>

InFlight(r) == reqs[r].st \in {"pending", "responding"}

\* Mutant: the dict is left as it is
ClearVoicesSkipped(lv) == lv

\* loaded_voices.clear()
ClearVoices(lv) == EmptyMap

\* lifespan, after the yield; the server has drained its connections
LifespanShutdown ==
    /\ phase = "serving"
    /\ \A r \in Reqs : ~InFlight(r)
    /\ phase' = "stopped"
    /\ loaded_voices' = ClearVoices(loaded_voices)
    /\ UNCHANGED <<default_voice, models, tmp, reqs, last, nextHandle,
                   attempted, stores, firstHandle, startupLog>>

Next ==
    \/ Main
    \/ ServeApp
    \/ LifespanStartup
    \/ \E r \in Reqs : Arrive(r)
    \/ \E r \in Reqs : CreateSpeech(r)
    \/ \E r \in Reqs : Respond(r)
    \/ LifespanShutdown

Spec == Init /\ [][Next]_vars

TypeOK ==
    /\ phase \in {"imported", "config_error", "starting", "startup_failed",
                  "serving", "stopped"}
    /\ DOMAIN loaded_voices \subseteq Keys
    /\ tmp \subseteq Reqs \X {"wav", "out"}

----------------------------------------------------------------------------
(* Properties                                                              *)

\* The step in which the handler of request r runs
Handled(r) == reqs[r].st = "pending" /\ reqs'[r].st = "responding"

\* A run of create_speech is on record
Called == last.r # 0

\* The text is empty or consists of whitespace only
Blank(text) == \A i \in 1..Len(text) : text[i] \in Whitespace

\* Number of hyphens in an identifier
Hyphens(name) == Cardinality({i \in 1..Len(name) : name[i] = "-"})

\* The identifier has fewer than 3 hyphen-separated segments
Malformed(name) == Hyphens(name) < 2

\* The identifier without its leading and trailing whitespace
Trimmed(name) ==
    LET idx == {i \in 1..Len(name) : name[i] \notin Whitespace} IN
    IF idx = {} THEN <<>>
    ELSE LET lo == CHOOSE i \in idx : \A j \in idx : i <= j
             hi == CHOOSE i \in idx : \A j \in idx : j <= i
         IN [i \in 1..(hi - lo + 1) |-> name[lo + i - 1]]

TempFilesOf(r) == {f \in tmp : f[1] = r}

\* C1: when a request has ended, none of its temporary files (the WAV file
\* and the file in the requested format) is left on disk, whichever way the
\* request ended.
C1_NoTempFileLeft == \A r \in Reqs : reqs[r].st = "ended" => TempFilesOf(r) = {}

\* C9: main() finds every settings field it reads, so starting through main()
\* never ends in a configuration error.
C9_MainStartsServer == phase # "config_error"

\* C3: every failed request carries the status of its failure kind: blank
\* input 400, a voice that cannot be resolved (malformed identifier, download
\* error, load error) 400, a transcoder non-zero exit 500, any other exception
\* during synthesis or transcoding 500; and only failures carry them.
C3_StatusOfFailureKind ==
    Called =>
      LET lg     == last.resp.log
          blank  == Blank(last.input)
          voice  == Has(lg, "ValueError") \/ Has(lg, "download_error")
                    \/ Has(lg, "load_error")
          conv   == Has(lg, "CalledProcessError")
          other  == Has(lg, "Exception")
          st     == last.resp.status
      IN
      /\ blank => st = 400 /\ last.resp.detail = "Input text cannot be empty"
      /\ (~blank /\ voice) => st = 400 /\ last.resp.detail = "Failed to load voice"
      /\ conv => st = 500 /\ last.resp.detail = "Audio format conversion failed."
      /\ other => st = 500 /\ last.resp.detail = "str(e)"
      /\ (~blank /\ ~voice /\ ~conv /\ ~other) => st = 200
      /\ st # 200 => last.resp.body = "none"

C3_Witness ==
    /\ Called
    /\ Has(last.resp.log, "CalledProcessError")
    /\ last.resp.status = 500

\* C4: a get_voice call on an identifier that is not in the handle map and
\* has fewer than 3 hyphen-separated segments fails as invalid input before
\* any download or load: its events are the cache miss, the ValueError and
\* the HTTPException, and no model file exists for the identifier.
C4_MalformedFailsBeforeDownload ==
    /\ \A v \in Voices :
         Malformed(v) =>
           /\ Trimmed(v) \notin DOMAIN loaded_voices
           /\ \A e \in Exts : models[<<Trimmed(v), e>>] = "absent"
           /\ Trimmed(v) \notin attempted
    /\ (Called /\ ~Blank(last.input) /\ Malformed(last.voice)) =>
         /\ last.resp.status = 400
         /\ last.resp.log = <<"cache_miss", "ValueError", "HTTPException">>
    /\ (startupLog # <<>> /\ Malformed(default_voice)) =>
         /\ phase = "startup_failed"
         /\ startupLog = <<"cache_miss", "ValueError", "HTTPException">>

C4_Witness ==
    /\ Called
    /\ last.voice = VoiceBad
    /\ ~Blank(last.input)
    /\ last.resp.status = 400

\* C5: the handler of a request whose input is empty or only whitespace
\* answers 400 and does nothing else: the handle map, the model files, the
\* temporary files and the handle counter are as before, and its only events
\* are the rejection.
C5_BlankInputRejectedFirst ==
    [][\A r \in Reqs :
         (Handled(r) /\ Blank(last'.input)) =>
           /\ last'.resp.status = 400
           /\ last'.resp.log = <<"empty_input", "HTTPException">>
           /\ last'.handle = 0
           /\ loaded_voices' = loaded_voices
           /\ models' = models
           /\ tmp' = tmp
           /\ nextHandle' = nextHandle
           /\ attempted' = attempted]_vars

C5_Witness ==
    /\ Called
    /\ last.input = <<" ", "\n">>
    /\ last.voice = VoiceB
    /\ last.resp.status = 400
    /\ Trimmed(VoiceB) \notin DOMAIN loaded_voices
    /\ Trimmed(VoiceB) \notin attempted
    /\ tmp = {}

\* The handle map holds what was first stored for every identifier that was
\* ever stored, as long as the process has not shut down
NothingEvicted ==
    phase # "stopped" =>
      \A k \in Keys :
        firstHandle[k] # 0 =>
          k \in DOMAIN loaded_voices /\ loaded_voices[k] = firstHandle[k]

\* C2 as stated: no identifier goes through a second download-and-load
\* sequence: a call never starts a download or a load for an identifier for
\* which an earlier call has started one.
C2_AtMostOneSequence ==
    [][\A r \in Reqs :
         (Handled(r) /\ StartsFetch(last'.resp.log))
           => Trimmed(last'.voice) \notin attempted]_vars

\* C2 amended: every identifier goes through at most one download-and-load
\* sequence that completes (a handle is stored for it at most once), the
\* stored handle stays in the map unchanged until shutdown, and every call
\* that returns a handle returns the one first stored for its identifier.
C2_OneCompletedSequence ==
    /\ \A k \in Keys : stores[k] <= 1
    /\ NothingEvicted
    /\ (Called /\ last.handle # 0) =>
         last.handle = firstHandle[Trimmed(last.voice)]

C2_Witness ==
    /\ Called
    /\ last.voice = VoiceB
    /\ last.resp.log[1] = "cache_hit"
    /\ last.handle = firstHandle[Trimmed(VoiceB)]
    /\ stores[Trimmed(VoiceB)] = 1
    /\ Cardinality(DOMAIN loaded_voices) = 2

\* The format spells wav in any letter case
SpellsWav(fmt) ==
    /\ Len(fmt) = 3
    /\ fmt[1] \in {"w", "W"}
    /\ fmt[2] \in {"a", "A"}
    /\ fmt[3] \in {"v", "V"}

\* A successful response whose body is the transcoder's file
Transcoded(resp, ctype) ==
    /\ resp.body = "out"
    /\ Has(resp.log, "ffmpeg")
    /\ resp.ctype = ctype

\* A successful response whose body is the synthesized WAV file
PlainWav(resp) ==
    /\ resp.body = "wav"
    /\ ~Has(resp.log, "ffmpeg")
    /\ resp.ctype = <<"a", "u", "d", "i", "o", "/", "w", "a", "v">>

\* C6 as stated: a successful response is the WAV file as audio/wav, without
\* the transcoder, when the format is wav; for any other format it is the
\* transcoder's file, as audio/mpeg for mp3 and audio/{format} otherwise.
C6_ContentTypeByFormat ==
    (Called /\ last.resp.status = 200) =>
      IF last.fmt = <<"w", "a", "v">>
      THEN PlainWav(last.resp)
      ELSE Transcoded(last.resp,
                      IF last.fmt = <<"m", "p", "3">>
                      THEN <<"a", "u", "d", "i", "o", "/", "m", "p", "e", "g">>
                      ELSE <<"a", "u", "d", "i", "o", "/">> \o last.fmt)

\* C6 amended: the format is compared with wav ignoring letter case: a
\* successful response is the WAV file as audio/wav, without the transcoder,
\* when the format spells wav in any case; for any other format it is the
\* transcoder's file, as audio/mpeg for exactly mp3 and audio/{format}
\* otherwise.
C6_ContentTypeByLoweredFormat ==
    (Called /\ last.resp.status = 200) =>
      /\ ~Blank(last.input)
      /\ IF SpellsWav(last.fmt)
         THEN PlainWav(last.resp)
         ELSE Transcoded(last.resp,
                         IF last.fmt = <<"m", "p", "3">>
                         THEN <<"a", "u", "d", "i", "o", "/", "m", "p", "e", "g">>
                         ELSE <<"a", "u", "d", "i", "o", "/">> \o last.fmt)

C6_Witness ==
    /\ Called
    /\ last.resp.status = 200
    /\ last.fmt = FmtWAV
    /\ last.resp.body = "wav"

\* C7: no request is accepted before the preload stored the default voice's
\* handle, a failed preload never serves, the default voice's handle is in
\* the map in every serving state, and after shutdown the map is empty.
C7_Lifecycle ==
    /\ (\E r \in Reqs : reqs[r].st # "new") =>
         /\ phase \in {"serving", "stopped"}
         /\ Has(startupLog, "store")
    /\ phase \in {"imported", "config_error", "starting"} =>
         /\ DOMAIN loaded_voices = {}
         /\ startupLog = <<>>
    /\ phase = "startup_failed" =>
         /\ ~Has(startupLog, "store")
         /\ Trimmed(default_voice) \notin DOMAIN loaded_voices
    /\ phase = "serving" =>
         /\ Trimmed(default_voice) \in DOMAIN loaded_voices
         /\ loaded_voices[Trimmed(default_voice)] = firstHandle[Trimmed(default_voice)]
         /\ firstHandle[Trimmed(default_voice)] # 0
    /\ phase = "stopped" =>
         /\ DOMAIN loaded_voices = {}
         /\ Has(startupLog, "store")

C7_Witness ==
    /\ phase = "stopped"
    /\ \A r \in Reqs : reqs[r].st = "ended"
    /\ firstHandle[Trimmed(VoiceB)] # 0

\* C8 as stated, its universal part: every request that was pending together
\* with another request for the same well-formed, uncached identifier obtains
\* a usable handle from get_voice.
C8_EveryRacerGetsHandle ==
    (Called /\ last.raced /\ ~Blank(last.input) /\ ~Malformed(last.voice))
      => last.handle # 0

\* C8 amended: handlers run one at a time, so among requests pending together
\* for the same uncached identifier a handle is stored at most once, the map
\* holds that one handle, a request that gets a handle gets that one, a
\* request served from the map finds the handle another request stored, and a
\* request that gets none failed in its own download or load and answers 400.
C8_RacersShareOneHandle ==
    (Called /\ last.raced /\ ~Blank(last.input)) =>
      LET k  == Trimmed(last.voice)
          lg == last.resp.log
      IN
      /\ stores[k] <= 1
      /\ last.handle # 0 =>
           /\ k \in DOMAIN loaded_voices
           /\ loaded_voices[k] = last.handle
           /\ firstHandle[k] = last.handle
           /\ stores[k] = 1
           /\ Has(lg, "cache_hit") \/ Has(lg, "store")
      /\ last.handle = 0 =>
           /\ last.resp.status = 400
           /\ Has(lg, "cache_miss")
           /\ Has(lg, "ValueError") \/ Has(lg, "download_error")
              \/ Has(lg, "load_error")

C8_Witness ==
    /\ Called
    /\ last.raced
    /\ last.voice = VoiceB
    /\ last.resp.log[1] = "cache_hit"
    /\ last.handle = firstHandle[Trimmed(VoiceB)]
    /\ \E r \in Reqs : r # last.r /\ reqs[r].st = "responding" /\ reqs[r].raced

\* The call of get_voice just made failed
GetVoiceFailed(lg) == Has(lg, "cache_miss") /\ ~Has(lg, "store")

\* C10: a get_voice call that fails leaves the handle map as it was, and a
\* call for an identifier that is not in the map (a failure is not cached)
\* goes through the miss branch again.
C10_FailureNotCached ==
    [][/\ \A r \in Reqs :
            Handled(r) =>
              /\ GetVoiceFailed(last'.resp.log) => loaded_voices' = loaded_voices
              /\ (~Blank(last'.input)
                  /\ Trimmed(last'.voice) \notin DOMAIN loaded_voices)
                   => /\ Has(last'.resp.log, "cache_miss")
                      /\ ~Malformed(last'.voice) => StartsFetch(last'.resp.log)
       /\ (phase = "starting" /\ phase' = "startup_failed")
            => loaded_voices' = loaded_voices]_vars

\* A second failing call for VoiceB: the model file is on disk from an
\* earlier call, which therefore failed too; this one fails on the config.
C10_Witness ==
    /\ Called
    /\ last.voice = VoiceB
    /\ last.resp.log = <<"cache_miss", "urlretrieve_json", "download_error",
                         "HTTPException">>
    /\ last.resp.status = 400
    /\ models[<<Trimmed(VoiceB), "onnx">>] = "ok"
    /\ Trimmed(VoiceB) \notin DOMAIN loaded_voices

====
